---- MODULE Spec2Model ----
\* Model of ndt5/protocol/messager.go: the Encoding factory, the two Messager
\* variants (jsonMessager, tlvMessager) and the reflective walker SendMetrics.
\*
\* Go strings and []byte values are sequences of one-character strings, so that
\* formatting (strconv.FormatInt, fmt.Sprintf, json.Marshal) builds text and the
\* properties can take that text apart again.
EXTENDS Integers, Sequences, FiniteSets, TLC

VARIABLES e, m, stream, ghost, last, metrics, prefix, stack, pc, sends, result

vars == <<e, m, stream, ghost, last, metrics, prefix, stack, pc, sends, result>>

(***************************************************************************)
(* Bounds and input sets                                                   *)
(***************************************************************************)

\* Most frames that may sit unread in the connection's stream.
MaxStream == 1

\* Message types the caller passes; TestMsg is the one messager.go names.
MsgTypes == {"TestMsg", "MsgLogin"}

\* Payloads handed to SendMessage.
Payloads == {<< >>, <<"h", "i">>}

\* Arguments of SendS2CResults (int64 in the code; TLC's integers are 32 bit,
\* so the samples stay well inside both).
S2CValues == {-7, 1000}

S2CInputs == (S2CValues \X S2CValues \X S2CValues) \cup {<<1000, 0, 125000>>}

\* Most fields, counted over all nesting levels, of a record given to SendMetrics.
MaxNodes == 3

\* Most pointer indirections in front of the record given to SendMetrics.
MaxPtrs == 2

\* Errors the codec / transport may hand back.
CodecErrors == {"EPIPE", "EOF"}

NoErr == "nil"

Faults == {NoErr} \cup CodecErrors

(***************************************************************************)
(* Text helpers                                                            *)
(***************************************************************************)

Digits == <<"0", "1", "2", "3", "4", "5", "6", "7", "8", "9">>

RECURSIVE FormatUint(_)
FormatUint(n) ==
    IF n < 10 THEN <<Digits[n + 1]>>
    ELSE FormatUint(n \div 10) \o <<Digits[(n % 10) + 1]>>

\* strconv.FormatInt(n, 10), and fmt's %d of a signed integer.
FormatInt(n) == IF n < 0 THEN <<"-">> \o FormatUint(-n) ELSE FormatUint(n)

NilBytes == [isNil |-> TRUE, b |-> << >>]

Bytes(s) == [isNil |-> FALSE, b |-> s]

(***************************************************************************)
(* Encoding and the factory                                                *)
(***************************************************************************)

Unknown == 0

JSON == 1

TLV == 2

\* The three declared values and one value outside the enumeration.
EncodingInputs == Unknown .. (TLV + 1)

NilMessager == "nil"

\* Messager with the JSON case building the other variant.
MessagerJSONAsTLV(enc) ==
    CASE enc = Unknown -> NilMessager
      [] enc = JSON -> "tlvMessager"
      [] enc = TLV -> "tlvMessager"
      [] OTHER -> NilMessager

\* func (e Encoding) Messager(conn Connection) Messager
Messager(enc) ==
    CASE enc = Unknown -> NilMessager
      [] enc = JSON -> "jsonMessager"
      [] enc = TLV -> "tlvMessager"
      [] OTHER -> NilMessager

\* func (jm *jsonMessager) Encoding() / func (tm *tlvMessager) Encoding()
Encoding(msgr) ==
    CASE msgr = "jsonMessager" -> JSON
      [] msgr = "tlvMessager" -> TLV

(***************************************************************************)
(* The codecs the messagers delegate to.  Their code is not part of the    *)
(* file modelled here; they follow the interface the specification gives:  *)
(* a frame carries a type and a payload, the stream is a lossless FIFO, a  *)
(* transport fault returns the fault and moves nothing.                    *)
(***************************************************************************)

Frame(kind, payload) == [kind |-> kind, payload |-> payload]

RECURSIVE EscapeJSON(_)
EscapeJSON(s) ==
    IF s = << >> THEN << >>
    ELSE (CASE Head(s) = "\"" -> <<"\\", "\"">>
            [] Head(s) = "\\" -> <<"\\", "\\">>
            [] Head(s) = "\n" -> <<"\\", "n">>
            [] OTHER -> <<Head(s)>>) \o EscapeJSON(Tail(s))

RECURSIVE UnescapeJSON(_)
UnescapeJSON(s) ==
    IF s = << >> THEN << >>
    ELSE IF Head(s) = "\\" /\ Len(s) >= 2
         THEN <<IF s[2] = "n" THEN "\n" ELSE s[2]>> \o UnescapeJSON(SubSeq(s, 3, Len(s)))
         ELSE <<Head(s)>> \o UnescapeJSON(Tail(s))

MsgOpen == <<"{", "\"", "m", "s", "g", "\"", ":", "\"">>

MsgClose == <<"\"", "}">>

JSONNull == <<"n", "u", "l", "l">>

\* The JSON message object {"msg": s}.
WrapJSON(s) == MsgOpen \o EscapeJSON(s) \o MsgClose

NilMsg == [isNil |-> TRUE, Msg |-> << >>]

\* Decoding of a frame's payload into a message object: null gives no message
\* and no error, an object without "msg" gives an empty Msg.
UnwrapJSON(b) ==
    CASE b = JSONNull -> [msg |-> NilMsg, err |-> NoErr]
      [] /\ Len(b) >= Len(MsgOpen) + Len(MsgClose)
         /\ SubSeq(b, 1, Len(MsgOpen)) = MsgOpen
         /\ SubSeq(b, Len(b) - 1, Len(b)) = MsgClose ->
            [msg |-> [isNil |-> FALSE,
                      Msg |-> UnescapeJSON(SubSeq(b, Len(MsgOpen) + 1, Len(b) - 2))],
             err |-> NoErr]
      [] Len(b) >= 2 /\ b[1] = "{" /\ b[Len(b)] = "}" ->
            [msg |-> [isNil |-> FALSE, Msg |-> << >>], err |-> NoErr]
      [] OTHER -> [msg |-> NilMsg, err |-> "invalid JSON"]

\* Every error a codec call can return.
AllCodecErrors == CodecErrors \cup {"invalid JSON", "unexpected message type"}

CodecCall(fn, err, empty) == [fn |-> fn, err |-> err, empty |-> empty]

\* writeTLVMessage(connection, type, string) -> error
WriteTLVMessage(conn, kind, message, fault) ==
    IF fault # NoErr
    THEN [conn |-> conn, err |-> fault, calls |-> <<CodecCall("WriteTLVMessage", fault, FALSE)>>]
    ELSE [conn |-> Append(conn, Frame(kind, message)), err |-> NoErr,
          calls |-> <<CodecCall("WriteTLVMessage", NoErr, FALSE)>>]

\* sendJSONMessage(type, string, connection) -> error
SendJSONMessage(kind, msg, conn, fault) ==
    IF fault # NoErr
    THEN [conn |-> conn, err |-> fault, calls |-> <<CodecCall("SendJSONMessage", fault, FALSE)>>]
    ELSE [conn |-> Append(conn, Frame(kind, WrapJSON(msg))), err |-> NoErr,
          calls |-> <<CodecCall("SendJSONMessage", NoErr, FALSE)>>]

ReadTLV(conn, kind, fault) ==
    IF fault # NoErr THEN [conn |-> conn, b |-> NilBytes, n |-> 0, err |-> fault]
    ELSE IF Head(conn).kind # kind
         THEN [conn |-> Tail(conn), b |-> NilBytes, n |-> 0, err |-> "unexpected message type"]
         ELSE [conn |-> Tail(conn), b |-> Bytes(Head(conn).payload),
               n |-> Len(Head(conn).payload), err |-> NoErr]

\* readTLVMessage(connection, expectedType) -> (payloadBytes, reportedLength, error)
ReadTLVMessage(conn, kind, fault) ==
    LET r == ReadTLV(conn, kind, fault)
    IN  [conn |-> r.conn, b |-> r.b, n |-> r.n, err |-> r.err,
         calls |-> <<CodecCall("ReadTLVMessage", r.err, r.b.isNil)>>]

\* receiveJSONMessage(connection, expectedType) -> (message-with-string-field, error)
ReceiveJSONMessage(conn, kind, fault) ==
    LET r == ReadTLV(conn, kind, fault)
        u == IF r.err # NoErr THEN [msg |-> NilMsg, err |-> r.err] ELSE UnwrapJSON(r.b.b)
    IN  [conn |-> r.conn, msg |-> u.msg, err |-> u.err,
         calls |-> <<CodecCall("ReceiveJSONMessage", u.err, u.msg.isNil)>>]

(***************************************************************************)
(* jsonMessager                                                            *)
(***************************************************************************)

TestMsg == "TestMsg"

Quoted(s) == <<"\"">> \o EscapeJSON(s) \o <<"\"">>

KeyThroughputValue ==
    <<"T", "h", "r", "o", "u", "g", "h", "p", "u", "t", "V", "a", "l", "u", "e">>

KeyUnsentDataAmount ==
    <<"U", "n", "s", "e", "n", "t", "D", "a", "t", "a", "A", "m", "o", "u", "n", "t">>

KeyTotalSentByte == <<"T", "o", "t", "a", "l", "S", "e", "n", "t", "B", "y", "t", "e">>

\* type s2cResult struct and func (r *s2cResult) String(): json.Marshal of the
\* three string fields, in declaration order.
s2cResultString(r) ==
    <<"{">> \o Quoted(KeyThroughputValue) \o <<":">> \o Quoted(r.ThroughputValue)
    \o <<",">> \o Quoted(KeyUnsentDataAmount) \o <<":">> \o Quoted(r.UnsentDataAmount)
    \o <<",">> \o Quoted(KeyTotalSentByte) \o <<":">> \o Quoted(r.TotalSentByte)
    \o <<"}">>

\* SendMessage of the jsonMessager without the JSON message wrapping.
jsonSendMessageUnwrapped(conn, kind, contents, fault) ==
    WriteTLVMessage(conn, kind, contents, fault)

\* func (jm *jsonMessager) SendMessage(kind MessageType, contents []byte) error
jsonSendMessage(conn, kind, contents, fault) ==
    SendJSONMessage(kind, contents, conn, fault)

\* SendS2CResults of the jsonMessager with the last two fields exchanged.
jsonSendS2CResultsSwapped(conn, throughputKbps, unsentBytes, totalSentBytes, fault) ==
    LET r == [ThroughputValue |-> FormatInt(throughputKbps),
              UnsentDataAmount |-> FormatInt(totalSentBytes),
              TotalSentByte |-> FormatInt(unsentBytes)]
    IN  WriteTLVMessage(conn, TestMsg, s2cResultString(r), fault)

\* func (jm *jsonMessager) SendS2CResults(throughputKbps, unsentBytes, totalSentBytes int64) error
jsonSendS2CResults(conn, throughputKbps, unsentBytes, totalSentBytes, fault) ==
    LET r == [ThroughputValue |-> FormatInt(throughputKbps),
              UnsentDataAmount |-> FormatInt(unsentBytes),
              TotalSentByte |-> FormatInt(totalSentBytes)]
    IN  WriteTLVMessage(conn, TestMsg, s2cResultString(r), fault)

EmptyMsgErr == "empty message received without error"

\* ReceiveMessage of the jsonMessager without the empty-message check.
jsonReceiveMessageEmptyOk(conn, kind, fault) ==
    LET r == ReceiveJSONMessage(conn, kind, fault)
    IN  IF r.msg.isNil
        THEN [conn |-> r.conn, out |-> NilBytes, err |-> r.err, calls |-> r.calls]
        ELSE [conn |-> r.conn, out |-> Bytes(r.msg.Msg), err |-> r.err, calls |-> r.calls]

\* ReceiveMessage of the jsonMessager reporting every missing message as empty.
jsonReceiveMessageMaskErr(conn, kind, fault) ==
    LET r == ReceiveJSONMessage(conn, kind, fault)
    IN  IF r.msg.isNil
        THEN [conn |-> r.conn, out |-> NilBytes, err |-> EmptyMsgErr, calls |-> r.calls]
        ELSE [conn |-> r.conn, out |-> Bytes(r.msg.Msg), err |-> r.err, calls |-> r.calls]

\* func (jm *jsonMessager) ReceiveMessage(kind MessageType) ([]byte, error)
jsonReceiveMessage(conn, kind, fault) ==
    LET r == ReceiveJSONMessage(conn, kind, fault)
    IN  IF r.msg.isNil
        THEN IF r.err = NoErr
             THEN [conn |-> r.conn, out |-> NilBytes, err |-> EmptyMsgErr, calls |-> r.calls]
             ELSE [conn |-> r.conn, out |-> NilBytes, err |-> r.err, calls |-> r.calls]
        ELSE [conn |-> r.conn, out |-> Bytes(r.msg.Msg), err |-> r.err, calls |-> r.calls]

(***************************************************************************)
(* tlvMessager                                                             *)
(***************************************************************************)

\* SendMessage of the tlvMessager that ignores the caller's message type.
tlvSendMessageAsTestMsg(conn, kind, contents, fault) ==
    WriteTLVMessage(conn, TestMsg, contents, fault)

\* func (tm *tlvMessager) SendMessage(kind MessageType, contents []byte) error
tlvSendMessage(conn, kind, contents, fault) ==
    WriteTLVMessage(conn, kind, contents, fault)

\* func (tm *tlvMessager) SendS2CResults(throughputKbps, unsentBytes, totalSentBytes int64) error
tlvSendS2CResults(conn, throughputKbps, unsentBytes, totalSentBytes, fault) ==
    LET msg == FormatInt(throughputKbps) \o <<" ">> \o FormatInt(unsentBytes)
               \o <<" ">> \o FormatInt(totalSentBytes)
    IN  WriteTLVMessage(conn, TestMsg, msg, fault)

\* func (tm *tlvMessager) ReceiveMessage(kind MessageType) ([]byte, error)
tlvReceiveMessage(conn, kind, fault) ==
    LET r == ReadTLVMessage(conn, kind, fault)
    IN  [conn |-> r.conn, out |-> r.b, err |-> r.err, calls |-> r.calls]

(***************************************************************************)
(* The Messager interface: a call dispatches on the variant held in m.     *)
(***************************************************************************)

DoSendMessage(msgr, conn, kind, contents, fault) ==
    IF msgr = "jsonMessager" THEN jsonSendMessage(conn, kind, contents, fault)
    ELSE tlvSendMessage(conn, kind, contents, fault)

DoSendS2CResults(msgr, conn, t, u, s, fault) ==
    IF msgr = "jsonMessager" THEN jsonSendS2CResults(conn, t, u, s, fault)
    ELSE tlvSendS2CResults(conn, t, u, s, fault)

DoReceiveMessage(msgr, conn, kind, fault) ==
    IF msgr = "jsonMessager" THEN jsonReceiveMessage(conn, kind, fault)
    ELSE tlvReceiveMessage(conn, kind, fault)

(***************************************************************************)
(* Operations on an exchange                                               *)
(***************************************************************************)

NoSrc == [by |-> "none", kind |-> "none", contents |-> << >>]

Src(by, kind, contents) == [by |-> by, kind |-> kind, contents |-> contents]

NoNums == <<0, 0, 0>>

\* Bookkeeping of the most recent call: its arguments, the codec calls it made,
\* the frames it appended, the frame it consumed and what it returned.
Last(op, kind, contents, nums, fault, r, out, src) ==
    [op |-> op, kind |-> kind, contents |-> contents, nums |-> nums, fault |-> fault,
     calls |-> r.calls, wrote |-> SubSeq(r.conn, Len(stream) + 1, Len(r.conn)),
     out |-> out, ret |-> r.err, src |-> src]

NoLast ==
    [op |-> "none", kind |-> "none", contents |-> << >>, nums |-> NoNums, fault |-> NoErr,
     calls |-> << >>, wrote |-> << >>, out |-> NilBytes, ret |-> NoErr, src |-> NoSrc]

\* ghost runs parallel to stream: who wrote each frame, and from what arguments.
GhostAfterWrite(conn, src) ==
    IF Len(conn) > Len(stream) THEN Append(ghost, src) ELSE ghost

MetricsIdle == UNCHANGED <<metrics, prefix, stack, pc, sends, result>>

SendMessage ==
    /\ m # NilMessager
    /\ \E kind \in MsgTypes, contents \in Payloads, fault \in Faults :
          /\ fault = NoErr => Len(stream) < MaxStream
          /\ LET r == DoSendMessage(m, stream, kind, contents, fault)
             IN  /\ stream' = r.conn
                 /\ ghost' = GhostAfterWrite(r.conn, Src("SendMessage", kind, contents))
                 /\ last' = Last("SendMessage", kind, contents, NoNums, fault, r,
                                 NilBytes, NoSrc)
    /\ UNCHANGED <<e, m>>
    /\ MetricsIdle

SendS2CResults ==
    /\ m # NilMessager
    /\ \E nums \in S2CInputs, fault \in Faults :
          /\ fault = NoErr => Len(stream) < MaxStream
          /\ LET r == DoSendS2CResults(m, stream, nums[1], nums[2], nums[3], fault)
             IN  /\ stream' = r.conn
                 /\ ghost' = GhostAfterWrite(r.conn, Src("SendS2CResults", TestMsg, << >>))
                 /\ last' = Last("SendS2CResults", TestMsg, << >>, nums, fault, r,
                                 NilBytes, NoSrc)
    /\ UNCHANGED <<e, m>>
    /\ MetricsIdle

\* A receive blocks until a frame is there or the transport fails.
ReceiveMessage ==
    /\ m # NilMessager
    /\ \E kind \in MsgTypes, fault \in Faults :
          /\ fault = NoErr => stream # << >>
          /\ LET r == DoReceiveMessage(m, stream, kind, fault)
             IN  /\ stream' = r.conn
                 /\ ghost' = IF Len(r.conn) < Len(stream) THEN Tail(ghost) ELSE ghost
                 /\ last' = Last("ReceiveMessage", kind, << >>, NoNums, fault, r, r.out,
                                 IF Len(r.conn) < Len(stream) THEN Head(ghost) ELSE NoSrc)
    /\ UNCHANGED <<e, m>>
    /\ MetricsIdle

\* What the other end of the connection may put on the stream.
PeerPayloads == {JSONNull, <<"h", "i">>, WrapJSON(<<"h", "i">>)}

PeerWrite ==
    /\ Len(stream) < MaxStream
    /\ \E kind \in MsgTypes, payload \in PeerPayloads :
          /\ stream' = Append(stream, Frame(kind, payload))
          /\ ghost' = Append(ghost, Src("Peer", kind, payload))
    /\ UNCHANGED <<e, m, last>>
    /\ MetricsIdle

Init ==
    /\ e \in EncodingInputs
    /\ m = Messager(e)
    /\ stream = << >>
    /\ ghost = << >>
    /\ last = NoLast
    /\ metrics = << >>
    /\ prefix = << >>
    /\ stack = << >>
    /\ pc = "idle"
    /\ sends = << >>
    /\ result = NoErr

Next == SendMessage \/ SendS2CResults \/ ReceiveMessage \/ PeerWrite

Spec == Init /\ [][Next]_vars

(***************************************************************************)
(* Properties of the exchange                                              *)
(***************************************************************************)

\* C1: the factory returns a non-nil exchange for JSON and for TLV whose
\* Encoding() is the requested value, in every state any sequence of sends and
\* receives (successful or failing) leads to; for Unknown it returns nil.
C1_FactoryEncoding ==
    /\ e \in {JSON, TLV} => m # NilMessager /\ Encoding(m) = e
    /\ e = Unknown => m = NilMessager

C1_Witness ==
    /\ e = JSON
    /\ last.op = "ReceiveMessage"
    /\ last.ret # NoErr
    /\ stream # << >>

IsSend == last.op \in {"SendMessage", "SendS2CResults"}

\* C2 as stated: every write of a jsonMessager goes through the JSON-message
\* codec and every write of a tlvMessager through the TLV codec.
C2_Original ==
    IsSend =>
        \A i \in 1 .. Len(last.calls) :
            last.calls[i].fn =
                IF m = "jsonMessager" THEN "SendJSONMessage" ELSE "WriteTLVMessage"

\* C2 amended: SendMessage of a jsonMessager writes through the JSON-message
\* codec, SendS2CResults of a jsonMessager writes its JSON object through the
\* TLV codec (unwrapped), and a tlvMessager writes only through the TLV codec.
C2_Amended ==
    IsSend =>
        \A i \in 1 .. Len(last.calls) :
            last.calls[i].fn =
                IF m = "jsonMessager" /\ last.op = "SendMessage"
                THEN "SendJSONMessage" ELSE "WriteTLVMessage"

C2_Witness ==
    /\ m = "jsonMessager"
    /\ last.op = "SendMessage"
    /\ last.ret = NoErr
    /\ Len(last.wrote) = 1

IndexOf(s, c) ==
    IF \E i \in 1 .. Len(s) : s[i] = c
    THEN CHOOSE i \in 1 .. Len(s) : s[i] = c /\ \A j \in 1 .. (i - 1) : s[j] # c
    ELSE 0

\* The pieces of s between occurrences of the character c.
RECURSIVE Split(_, _)
Split(s, c) ==
    IF IndexOf(s, c) = 0 THEN <<s>>
    ELSE <<SubSeq(s, 1, IndexOf(s, c) - 1)>> \o Split(SubSeq(s, IndexOf(s, c) + 1, Len(s)), c)

IsDigit(c) == \E d \in 1 .. 10 : Digits[d] = c

DigitValue(c) == (CHOOSE d \in 1 .. 10 : Digits[d] = c) - 1

RECURSIVE ParseUint(_)
ParseUint(s) ==
    IF s = << >> THEN 0 ELSE 10 * ParseUint(SubSeq(s, 1, Len(s) - 1)) + DigitValue(s[Len(s)])

\* d is the decimal numeral of n: an optional minus sign, digits, no leading
\* zero, no negative zero.
IsDecimalOf(d, n) ==
    LET neg == d # << >> /\ d[1] = "-"
        mag == IF neg THEN Tail(d) ELSE d
    IN  /\ mag # << >>
        /\ \A i \in 1 .. Len(mag) : IsDigit(mag[i])
        /\ Len(mag) > 1 => mag[1] # "0"
        /\ neg => mag # <<"0">>
        /\ n = IF neg THEN 0 - ParseUint(mag) ELSE ParseUint(mag)

\* C3: a successful SendS2CResults(t, u, s) writes exactly one frame, of type
\* TestMsg; on the JSON variant its payload is the object with the string
\* fields ThroughputValue, UnsentDataAmount, TotalSentByte holding the decimals
\* of t, u, s; on the TLV variant it is the three decimals separated by spaces.
C3_S2CResultsPayload ==
    (last.op = "SendS2CResults" /\ last.ret = NoErr) =>
        /\ Len(last.wrote) = 1
        /\ last.wrote[1].kind = "TestMsg"
        /\ m = "jsonMessager" =>
              LET p == Split(last.wrote[1].payload, "\"")
              IN  /\ Len(p) = 13
                  /\ p[1] = <<"{">>
                  /\ p[2] = KeyThroughputValue /\ p[3] = <<":">>
                  /\ IsDecimalOf(p[4], last.nums[1])
                  /\ p[5] = <<",">>
                  /\ p[6] = KeyUnsentDataAmount /\ p[7] = <<":">>
                  /\ IsDecimalOf(p[8], last.nums[2])
                  /\ p[9] = <<",">>
                  /\ p[10] = KeyTotalSentByte /\ p[11] = <<":">>
                  /\ IsDecimalOf(p[12], last.nums[3])
                  /\ p[13] = <<"}">>
        /\ m = "tlvMessager" =>
              LET p == Split(last.wrote[1].payload, " ")
              IN  /\ Len(p) = 3
                  /\ \A i \in 1 .. 3 : IsDecimalOf(p[i], last.nums[i])

C3_Witness ==
    /\ last.op = "SendS2CResults"
    /\ last.ret = NoErr
    /\ m = "jsonMessager"
    /\ last.nums = <<1000, 0, 125000>>
    /\ Len(last.wrote) = 1

EmptyRead ==
    /\ last.op = "ReceiveMessage"
    /\ m = "jsonMessager"
    /\ Len(last.calls) >= 1
    /\ last.calls[1].empty
    /\ last.calls[1].err = NoErr

\* C4: when the JSON-message read gives no message and no error, ReceiveMessage
\* of a jsonMessager returns no payload and a non-nil error that is none of the
\* errors the codec or transport returns.
C4_EmptyMessageIsError ==
    EmptyRead =>
        /\ last.out.isNil
        /\ last.ret # NoErr
        /\ last.ret \notin AllCodecErrors

C4_Witness == EmptyRead /\ last.src.by = "Peer" /\ last.src.contents = JSONNull

\* C5: every SendMessage, SendS2CResults and ReceiveMessage, on either variant,
\* makes exactly one codec call, and when that call fails the caller gets
\* exactly the codec's error.
C5_OneCallErrorUnchanged ==
    last.op # "none" =>
        /\ Len(last.calls) = 1
        /\ last.calls[1].err # NoErr => last.ret = last.calls[1].err

C5_Witness ==
    /\ last.op = "ReceiveMessage"
    /\ m = "jsonMessager"
    /\ Len(last.calls) = 1
    /\ last.calls[1].err = "invalid JSON"

RoundTrip ==
    /\ last.op = "ReceiveMessage"
    /\ m = "tlvMessager"
    /\ last.fault = NoErr
    /\ last.src.by = "SendMessage"
    /\ last.src.kind = last.kind

\* C6: on the TLV variant, a ReceiveMessage(t) that reads (without a transport
\* fault) the frame a SendMessage(t, p) put on the stream returns exactly p and
\* no error.
C6_TLVRoundTrip ==
    RoundTrip => last.out = Bytes(last.src.contents) /\ last.ret = NoErr

C6_Witness == RoundTrip /\ last.src.contents = <<"h", "i">> /\ last.kind = "MsgLogin"

(***************************************************************************)
(* SendMetrics: the records it walks                                       *)
(***************************************************************************)

\* The kinds of line 142's case.
IntegralCase ==
    {"Int", "Int8", "Int16", "Int32", "Int64", "Uint8", "Uint16", "Uint32", "Uint64"}

\* A struct field as reflection shows it: its name, the kind of its type, its
\* value (int for the integer kinds, str for strings), whether its type has a
\* String() method (str is then what String() returns) and, for a struct, its
\* own fields.  Fields are exported, as Interface() requires.
Field(name, kind, int, str, stringer, sub) ==
    [name |-> name, kind |-> kind, int |-> int, str |-> str, stringer |-> stringer,
     sub |-> sub]

\* Integer kinds a field may have: the nine of the case, and uint.
IntegerKinds == IntegralCase \cup {"Uint"}

\* Kinds outside the legacy wire format.
OtherKinds == {"Bool", "Float64", "Slice"}

\* A record is drawn as the list of its fields in depth-first declaration
\* order; size is the number of fields, at all levels, below a struct field.
Decl(kind, int, str, stringer, size) ==
    [kind |-> kind, int |-> int, str |-> str, stringer |-> stringer, size |-> size]

LeafDecls ==
    {Decl(k, 5, << >>, FALSE, 0) : k \in IntegerKinds}
    \cup {Decl("Int64", 5, <<"5", "n", "s">>, TRUE, 0)}
    \cup {Decl("String", 0, <<"x">>, FALSE, 0)}
    \cup {Decl(k, 0, << >>, FALSE, 0) : k \in OtherKinds}

StructDecls ==
    {Decl("Struct", 0, IF st THEN <<"r">> ELSE << >>, st, n) :
        st \in BOOLEAN, n \in 0 .. (MaxNodes - 1)}

Decls == LeafDecls \cup StructDecls

RECURSIVE WellFormed(_)
WellFormed(ds) ==
    \/ Len(ds) = 0
    \/ /\ Len(ds) > 0
       /\ Head(ds).size <= Len(ds) - 1
       /\ WellFormed(SubSeq(ds, 2, 1 + Head(ds).size))
       /\ WellFormed(SubSeq(ds, 2 + Head(ds).size, Len(ds)))

FieldNames == <<"A", "B", "C", "D", "E", "F">>

\* The record a list of declarations stands for; a record's fields are named
\* A, B, C, ... in declaration order.
RECURSIVE Record(_, _)
Record(ds, i) ==
    IF Len(ds) = 0 THEN << >>
    ELSE LET d == Head(ds)
         IN  <<Field(<<FieldNames[i]>>, d.kind, d.int, d.str, d.stringer,
                     Record(SubSeq(ds, 2, 1 + d.size), 1))>>
             \o Record(SubSeq(ds, 2 + d.size, Len(ds)), i + 1)

Prefixes == {<< >>, <<"s", ".">>}

\* The fault the transport raises during a send of the walk.
MetricsFaults == {NoErr, "EPIPE"}

Ptr(n, v) == [ptrs |-> n, v |-> v]

\* for t.Kind() == reflect.Ptr { v = v.Elem(); t = v.Type() }
RECURSIVE Deref(_)
Deref(p) == IF p.ptrs > 0 THEN Deref(Ptr(p.ptrs - 1, p.v)) ELSE p.v

\* fmt's %v of v.Field(i).Interface() for an integer kind: String() when the
\* type has one, the decimal otherwise.
FormatValue(f) == IF f.stringer THEN f.str ELSE FormatInt(f.int)

\* fmt.Sprintf("%s%s: %s\n", prefix, name, value)
Line(pre, name, value) == pre \o name \o <<":", " ">> \o value \o <<"\n">>

(***************************************************************************)
(* SendMetrics: the walk, one loop iteration or return per step            *)
(***************************************************************************)

\* One activation of SendMetrics: the struct it walks, its loop index, its prefix.
Activation(v, pre) == [v |-> v, i |-> 0, prefix |-> pre]

Top == stack[Len(stack)]

Cur == Top.v[Top.i + 1]

\* Declaration indices, outermost first, of the field the walk is at.
Path == [k \in 1 .. Len(stack) |-> stack[k].i + 1]

AtField(kinds) ==
    /\ pc = "running"
    /\ Top.i < Len(Top.v)
    /\ Cur.kind \in kinds

Advance == [stack EXCEPT ![Len(stack)].i = @ + 1]

MsgIdle == UNCHANGED <<e, m, ghost, last, metrics, prefix>>

\* SendLine without the error check after the send.
SendLineNoCheck(msg, fault) ==
    LET r == DoSendMessage(m, stream, TestMsg, msg, fault)
    IN  /\ stream' = r.conn
        /\ sends' = Append(sends, [path |-> Path, payload |-> msg, err |-> r.err,
                                   calls |-> r.calls])
        /\ pc' = pc /\ result' = result /\ stack' = Advance

\* err := m.SendMessage(TestMsg, []byte(msg)); if err != nil { return err }
SendLine(msg, fault) ==
    LET r == DoSendMessage(m, stream, TestMsg, msg, fault)
    IN  /\ stream' = r.conn
        /\ sends' = Append(sends, [path |-> Path, payload |-> msg, err |-> r.err,
                                   calls |-> r.calls])
        /\ IF r.err # NoErr
           THEN pc' = "return" /\ result' = r.err /\ stack' = stack
           ELSE pc' = pc /\ result' = result /\ stack' = Advance

\* func SendMetrics(metrics interface{}, m Messager, prefix string) error: entry
Call ==
    /\ pc = "idle"
    /\ \E n \in 0 .. MaxPtrs : stack' = <<Activation(Deref(Ptr(n, metrics)), prefix)>>
    /\ pc' = "running"
    /\ UNCHANGED <<stream, sends, result>>
    /\ MsgIdle

\* case reflect.Int, ..., reflect.Uint64
StepIntegral ==
    /\ AtField(IntegralCase)
    /\ \E fault \in MetricsFaults : SendLine(Line(Top.prefix, Cur.name, FormatValue(Cur)), fault)
    /\ MsgIdle

\* case reflect.String
StepString ==
    /\ AtField({"String"})
    /\ \E fault \in MetricsFaults : SendLine(Line(Top.prefix, Cur.name, Cur.str), fault)
    /\ MsgIdle

\* case reflect.Struct, the value is a fmt.Stringer
StepStructStringer ==
    /\ AtField({"Struct"})
    /\ Cur.stringer
    /\ \E fault \in MetricsFaults : SendLine(Line(Top.prefix, Cur.name, Cur.str), fault)
    /\ MsgIdle

\* case reflect.Struct, otherwise: SendMetrics(v.Field(i).Interface(), m, prefix+name+".")
StepStructRecurse ==
    /\ AtField({"Struct"})
    /\ ~Cur.stringer
    /\ stack' = Append(stack, Activation(Cur.sub, Top.prefix \o Cur.name \o <<".">>))
    /\ UNCHANGED <<stream, sends, result, pc>>
    /\ MsgIdle

\* The default case failing the walk instead of skipping the field.
StepDefaultFails ==
    /\ pc = "running"
    /\ Top.i < Len(Top.v)
    /\ Cur.kind \notin (IntegralCase \cup {"String", "Struct"})
    /\ pc' = "return"
    /\ result' = "unsupported kind"
    /\ UNCHANGED <<stack, stream, sends>>
    /\ MsgIdle

\* default: log.Println("Unhandled case in SendMetrics:", ...)
StepDefault ==
    /\ pc = "running"
    /\ Top.i < Len(Top.v)
    /\ Cur.kind \notin (IntegralCase \cup {"String", "Struct"})
    /\ stack' = Advance
    /\ UNCHANGED <<stream, sends, result, pc>>
    /\ MsgIdle

\* The loop of an activation is over: return nil.  The caller, if there is one,
\* finds err == nil at line 163 and goes on with its next field.
ReturnNil ==
    /\ pc = "running"
    /\ Top.i = Len(Top.v)
    /\ IF Len(stack) = 1
       THEN stack' = << >> /\ pc' = "done" /\ result' = NoErr
       ELSE /\ stack' = [SubSeq(stack, 1, Len(stack) - 1) EXCEPT ![Len(stack) - 1].i = @ + 1]
            /\ pc' = pc
            /\ result' = result
    /\ UNCHANGED <<stream, sends>>
    /\ MsgIdle

\* return err: the activation ends, and its caller, finding err != nil at line
\* 163, returns the same error in its turn.
ReturnErr ==
    /\ pc = "return"
    /\ stack' = SubSeq(stack, 1, Len(stack) - 1)
    /\ pc' = IF Len(stack) = 1 THEN "done" ELSE pc
    /\ UNCHANGED <<stream, sends, result>>
    /\ MsgIdle

\* The arguments of SendMetrics: a record, a prefix and an exchange.  The walk
\* only ever calls m.SendMessage, so one variant of the exchange stands for both.
InitMetrics ==
    /\ e = TLV
    /\ m = Messager(e)
    /\ stream = << >>
    /\ ghost = << >>
    /\ last = NoLast
    /\ \E n \in 0 .. MaxNodes :
          \E ds \in [1 .. n -> Decls] : WellFormed(ds) /\ metrics = Record(ds, 1)
    /\ prefix \in Prefixes
    /\ stack = << >>
    /\ pc = "idle"
    /\ sends = << >>
    /\ result = NoErr

NextMetrics ==
    \/ Call
    \/ StepIntegral
    \/ StepString
    \/ StepStructStringer
    \/ StepStructRecurse
    \/ StepDefault
    \/ ReturnNil
    \/ ReturnErr

SpecMetrics == InitMetrics /\ [][NextMetrics]_vars

(***************************************************************************)
(* Properties of SendMetrics                                               *)
(***************************************************************************)

Failed == \E k \in 1 .. Len(sends) : sends[k].err # NoErr

Succeeded == pc = "done" /\ result = NoErr

SendPaths == [k \in 1 .. Len(sends) |-> sends[k].path]

RECURSIVE FieldAt(_, _)
FieldAt(fields, path) ==
    IF Len(path) = 1 THEN fields[path[1]]
    ELSE FieldAt(fields[path[1]].sub, Tail(path))

\* Every integer kind of the language's reflection, signed or unsigned, of any width.
AllIntegerKinds ==
    {"Int", "Int8", "Int16", "Int32", "Int64", "Uint", "Uint8", "Uint16", "Uint32", "Uint64"}

ValueText(f) == IF f.kind = "String" THEN f.str ELSE FormatValue(f)

\* C7 as stated: when every send succeeds, each top-level field of integer kind
\* (signed or unsigned, any width) and each field of string kind is sent as
\* exactly one TestMsg "{prefix}{name}: {value}\n", in declaration order.
C7_Original ==
    Succeeded =>
        /\ \A i \in 1 .. Len(metrics) :
              metrics[i].kind \in (AllIntegerKinds \cup {"String"}) =>
                  /\ Cardinality({k \in 1 .. Len(sends) : sends[k].path = <<i>>}) = 1
                  /\ \A k \in 1 .. Len(sends) :
                        sends[k].path = <<i>> =>
                            sends[k].payload =
                                Line(prefix, metrics[i].name, ValueText(metrics[i]))
        /\ \A k, l \in 1 .. Len(sends) :
              (k < l /\ Len(sends[k].path) = 1 /\ Len(sends[l].path) = 1) =>
                  sends[k].path[1] < sends[l].path[1]
        /\ \A k \in 1 .. Len(stream) : stream[k].kind = "TestMsg"

\* The lines the flattening described by the specification gives for a record: one per
\* integer or string field, one per struct with a String(), and for any other
\* struct the lines of its fields under the prefix extended by "{name}.".
RECURSIVE ClaimedLines(_, _, _)
ClaimedLines(fields, pre, i) ==
    IF i > Len(fields) THEN << >>
    ELSE LET f == fields[i]
             here == CASE f.kind \in AllIntegerKinds \cup {"String"} ->
                              <<Line(pre, f.name, ValueText(f))>>
                       [] f.kind = "Struct" /\ f.stringer -> <<Line(pre, f.name, f.str)>>
                       [] f.kind = "Struct" /\ ~f.stringer ->
                              ClaimedLines(f.sub, pre \o f.name \o <<".">>, 1)
                       [] OTHER -> << >>
         IN  here \o ClaimedLines(fields, pre, i + 1)

PayloadsUnder(i) ==
    LET Under(s) == s.path[1] = i
        mine == SelectSeq(sends, Under)
    IN  [k \in 1 .. Len(mine) |-> mine[k].payload]

\* C8 as stated: for a field of struct kind, a value with a String() is sent as
\* the one line "{prefix}{name}: {rendering}\n"; any other is walked with the
\* prefix "{prefix}{name}.", so that every leaf below it, at any depth, is sent
\* under its dotted path, depth-first in declaration order.
C8_Original ==
    Succeeded =>
        \A i \in 1 .. Len(metrics) :
            metrics[i].kind = "Struct" =>
                PayloadsUnder(i) = ClaimedLines(SubSeq(metrics, 1, i), prefix, i)

FirstFailure ==
    CHOOSE k \in 1 .. Len(sends) :
        sends[k].err # NoErr /\ \A j \in 1 .. (k - 1) : sends[j].err = NoErr

\* C9: once a SendMessage of the walk has returned an error, at any depth, no
\* further SendMessage is made and nothing more is written; SendMetrics returns
\* exactly that first error; what was written before stays on the stream.
C9_FailFast ==
    /\ [][Failed => (sends' = sends /\ stream' = stream)]_vars
    /\ [][Len(stream') >= Len(stream)
          /\ SubSeq(stream', 1, Len(stream)) = stream]_vars
    /\ []((pc = "done" /\ Failed) => result = sends[FirstFailure].err)

C9_Witness ==
    /\ pc = "done"
    /\ Failed
    /\ result = "EPIPE"
    /\ Len(sends[Len(sends)].path) = 2
    /\ Len(metrics) > sends[Len(sends)].path[1]
    /\ metrics[Len(metrics)].kind = "String"

\* Kinds SendMetrics has no case for.
Unsupported == {"Bool", "Float64", "Slice", "Uint"}

\* The fields that are to be sent, as paths in depth-first declaration order:
\* every field of a kind with a case, the fields of nested structs included.
RECURSIVE SupportedPaths(_, _, _)
SupportedPaths(fields, base, i) ==
    IF i > Len(fields) THEN << >>
    ELSE LET f == fields[i]
             here == CASE f.kind \in Unsupported -> << >>
                       [] f.kind = "Struct" /\ ~f.stringer ->
                              SupportedPaths(f.sub, Append(base, i), 1)
                       [] OTHER -> <<Append(base, i)>>
         IN  here \o SupportedPaths(fields, base, i + 1)

\* C10: no message is ever sent for a field of a kind SendMetrics has no case
\* for; such a field causes no error; the supported fields after it are still
\* sent, in order, and when all sends succeed the result is success.
C10_SkipUnsupported ==
    /\ \A k \in 1 .. Len(sends) : FieldAt(metrics, sends[k].path).kind \notin Unsupported
    /\ (pc = "done" /\ ~Failed) => (result = NoErr /\ SendPaths = SupportedPaths(metrics, << >>, 1))

C10_Witness ==
    /\ Succeeded
    /\ Len(metrics) = 3
    /\ metrics[1].kind = "Int16"
    /\ metrics[2].kind = "Float64"
    /\ metrics[3].kind = "String"
    /\ SendPaths = <<<<1>>, <<3>>>>

====
